---- MODULE Spec2Model ----
(***************************************************************************)
(* Model of carriero/featureReport.py: the feature / GRES extractors, the  *)
(* boolean feature expression filter, the state -> feature -> GRES         *)
(* bucketing of nodes and the report loop built on summarize_hl.           *)
(*                                                                         *)
(* Python strings are tuples of one-character strings, so that split,      *)
(* replace, startswith, "in" and the regular expression act on characters. *)
(***************************************************************************)
EXTENDS Integers, Sequences, FiniteSets, TLC

(* ------------------------------ bounds --------------------------------- *)
NumNodes == 2
MaxPieces == 3
MaxGresLen == 2

(* ------------------------------ strings -------------------------------- *)
Ord(c) ==
    CASE c = "(" -> 40 []
         c = ")" -> 41 []
         c = "+" -> 43 []
         c = "," -> 44 []
         c = "-" -> 45 []
         c = "/" -> 47 []
         c = "0" -> 48 []
         c = "1" -> 49 []
         c = "2" -> 50 []
         c = "3" -> 51 []
         c = "4" -> 52 []
         c = "5" -> 53 []
         c = "6" -> 54 []
         c = "7" -> 55 []
         c = "8" -> 56 []
         c = "9" -> 57 []
         c = ":" -> 58 []
         c = "=" -> 61 []
         c = "@" -> 64 []
         c = "A" -> 65 []
         c = "D" -> 68 []
         c = "E" -> 69 []
         c = "I" -> 73 []
         c = "L" -> 76 []
         c = "M" -> 77 []
         c = "N" -> 78 []
         c = "O" -> 79 []
         c = "P" -> 80 []
         c = "R" -> 82 []
         c = "S" -> 83 []
         c = "W" -> 87 []
         c = "X" -> 88 []
         c = "_" -> 95 []
         c = "a" -> 97 []
         c = "b" -> 98 []
         c = "c" -> 99 []
         c = "d" -> 100 []
         c = "e" -> 101 []
         c = "g" -> 103 []
         c = "h" -> 104 []
         c = "i" -> 105 []
         c = "k" -> 107 []
         c = "l" -> 108 []
         c = "m" -> 109 []
         c = "n" -> 110 []
         c = "o" -> 111 []
         c = "p" -> 112 []
         c = "r" -> 114 []
         c = "s" -> 115 []
         c = "t" -> 116 []
         c = "u" -> 117 []
         c = "v" -> 118 []
         c = "x" -> 120 []
         c = "y" -> 121

Digits == {"0","1","2","3","4","5","6","7","8","9"}

DigitVal(c) == Ord(c) - 48

StartsWith(str, p) ==
    Len(str) >= Len(p) /\ SubSeq(str, 1, Len(p)) = p

Contains(str, p) ==
    \E k \in 1..(Len(str) - Len(p) + 1) : SubSeq(str, k, k + Len(p) - 1) = p

RECURSIVE Replace(_, _, _)
Replace(str, old, new) ==
    IF Len(str) < Len(old) THEN str
    ELSE IF StartsWith(str, old)
         THEN new \o Replace(SubSeq(str, Len(old) + 1, Len(str)), old, new)
         ELSE <<Head(str)>> \o Replace(Tail(str), old, new)

IndexOf(str, c) ==
    IF \E k \in 1..Len(str) : str[k] = c
    THEN CHOOSE k \in 1..Len(str) : str[k] = c /\ \A m \in 1..(k - 1) : str[m] # c
    ELSE 0

RECURSIVE SplitMax(_, _, _)
SplitMax(str, c, maxsplit) ==
    LET k == IndexOf(str, c) IN
    IF k = 0 \/ maxsplit = 0 THEN <<str>>
    ELSE <<SubSeq(str, 1, k - 1)>> \o SplitMax(SubSeq(str, k + 1, Len(str)), c, maxsplit - 1)

Split(str, c) == SplitMax(str, c, Len(str))

RECURSIVE LexLess(_, _)
LexLess(a, b) ==
    IF a = <<>> THEN b # <<>>
    ELSE IF b = <<>> THEN FALSE
    ELSE IF Head(a) = Head(b) THEN LexLess(Tail(a), Tail(b))
    ELSE Ord(Head(a)) < Ord(Head(b))

RECURSIVE Sorted(_)
Sorted(S) ==
    IF S = {} THEN <<>>
    ELSE LET m == CHOOSE x \in S : \A y \in S \ {x} : LexLess(x, y)
         IN <<m>> \o Sorted(S \ {m})

Range(f) == {f[k] : k \in DOMAIN f}

RECURSIVE Flatten(_)
Flatten(ss) == IF ss = <<>> THEN <<>> ELSE Head(ss) \o Flatten(Tail(ss))

(* ------------------------- Python values ------------------------------- *)
PyStr(cs) == [t |-> "str", v |-> cs]
PyList(xs) == [t |-> "list", v |-> xs]
PyNone == [t |-> "none", v |-> <<>>]

Ok(x) == [ok |-> TRUE, val |-> x]
Raise(e) == [ok |-> FALSE, val |-> e]

VARIABLES nodes, jobs, args,
          state2hl, state2f02hl, state2gres2hl,
          pc, ni, s, sq, fq, gq,
          num_nodes, gpus, gpus_allocated, gpu_info,
          total_nodes, total_cpus, total_cpus_allocated, total_gpus, total_gpus_allocated,
          prefix2c, prefix2cpus,
          out, err,
          arg, ret

vars == <<nodes, jobs, args, state2hl, state2f02hl, state2gres2hl, pc, ni, s, sq, fq, gq,
          num_nodes, gpus, gpus_allocated, gpu_info, total_nodes, total_cpus, total_cpus_allocated, total_gpus,
          total_gpus_allocated, prefix2c, prefix2cpus, out, err, arg, ret>>

runVars == <<nodes, jobs, args, state2hl, state2f02hl, state2gres2hl, ni, s, sq, fq, gq,
             num_nodes, gpus, gpus_allocated, gpu_info, total_nodes, total_cpus, total_cpus_allocated, total_gpus,
             total_gpus_allocated, prefix2c, prefix2cpus, out, err>>

(* ------------------------------ extractors ----------------------------- *)
getInfoFeatures(n) ==
    LET lfl0 == IF "features" \in DOMAIN n THEN n.features ELSE PyList(<<>>)
        lfl == IF lfl0.t # "list" THEN <<lfl0>> ELSE [k \in DOMAIN lfl0.v |-> PyStr(lfl0.v[k])]
    IN IF \E k \in DOMAIN lfl : lfl[k].t # "str"
       THEN Raise("AttributeError")
       ELSE Ok(Flatten([k \in DOMAIN lfl |-> Split(lfl[k].v, ",")]))

GresFragments(lgl) ==
    IF lgl.t = "str"
    THEN Flatten([k \in DOMAIN lgl.v |-> Split(<<lgl.v[k]>>, ",")])
    ELSE Flatten([k \in DOMAIN lgl.v |-> Split(lgl.v[k], ",")])

getInfoGres(n) ==
    IF "gres" \notin DOMAIN n THEN Raise("KeyError")
    ELSE LET lgl == n.gres IN
         IF lgl.t = "none" \/ lgl.v = <<>> THEN Ok(<<>>)
         ELSE LET gg == GresFragments(lgl) IN
              IF \E k \in DOMAIN gg : Len(SplitMax(gg[k], ":", 2)) < 2
              THEN Raise("IndexError")
              ELSE Ok([k \in DOMAIN gg |-> SplitMax(gg[k], ":", 2)[2]])

(* --------------------------- state normalisation ----------------------- *)
NormState(st) == Replace(Replace(st, <<"+","P","O","W","E","R">>, <<>>), <<"@">>, <<>>)

(* ------------------------- feature expression -------------------------- *)
(* An expression is the syntax tree of the joined argument words: a leaf   *)
(* "name" carries the token text as typed; "empty" is the empty word list. *)
Name(cs) == [op |-> "name", id |-> cs]
Not(a) == [op |-> "not", a |-> a]
And(a, b) == [op |-> "and", a |-> a, b |-> b]
Or(a, b) == [op |-> "or", a |-> a, b |-> b]
ConstTrue == [op |-> "const"]
NoWords == [op |-> "empty"]

SanitizeName(cs) ==
    Replace(Replace(Replace(cs, <<"-">>, <<"_","_","_","m","i","n","u","s","_","_","_">>), <<"+">>, <<"_","_","_","p","l","u","s","_","_","_">>),
            <<":">>, <<"_","_","_","c","o","l","o","n","_","_","_">>)

UnsanitizeName(f) ==
    Replace(Replace(Replace(f, <<"_","_","_","m","i","n","u","s","_","_","_">>, <<"-">>), <<"_","_","_","p","l","u","s","_","_","_">>, <<"+">>),
            <<"_","_","_","c","o","l","o","n","_","_","_">>, <<":">>)

RECURSIVE Sanitize(_)
Sanitize(e) ==
    CASE e.op = "name" -> Name(SanitizeName(e.id))
      [] e.op = "not" -> Not(Sanitize(e.a))
      [] e.op = "and" -> And(Sanitize(e.a), Sanitize(e.b))
      [] e.op = "or" -> Or(Sanitize(e.a), Sanitize(e.b))
      [] OTHER -> e

fexp(a) == IF a.features.op = "empty" THEN ConstTrue ELSE Sanitize(a.features)

RECURSIVE co_names(_)
co_names(e) ==
    CASE e.op = "name" -> {e.id}
      [] e.op = "not" -> co_names(e.a)
      [] e.op = "and" -> co_names(e.a) \cup co_names(e.b)
      [] e.op = "or" -> co_names(e.a) \cup co_names(e.b)
      [] OTHER -> {}

(* The sanitized names looked up without restoring '-', '+' and ':'.       *)
Locals_Raw(features, ns) == [f \in features |-> f \in ns]

Locals(features, ns) == [f \in features |-> UnsanitizeName(f) \in ns]

RECURSIVE Eval(_, _)
Eval(e, locals) ==
    CASE e.op = "name" -> locals[e.id]
      [] e.op = "not" -> ~Eval(e.a, locals)
      [] e.op = "and" -> IF Eval(e.a, locals) THEN Eval(e.b, locals) ELSE FALSE
      [] e.op = "or" -> IF Eval(e.a, locals) THEN TRUE ELSE Eval(e.b, locals)
      [] OTHER -> TRUE

getInfo(a, n) == IF a.gres THEN getInfoGres(n) ELSE getInfoFeatures(n)

Qualifies(a, n) ==
    LET code == fexp(a)
        ns == Range(getInfo(a, n).val)
    IN Eval(code, Locals(co_names(code), ns))

(* ------------------------------ hostlists ------------------------------ *)
inithl == <<>>

push(hl, name) == Append(hl, name)

RECURSIVE SortedNames(_)
SortedNames(S) ==
    IF S = {} THEN <<>>
    ELSE LET m == CHOOSE x \in S : \A y \in S : x <= y
         IN <<m>> \o SortedNames(S \ {m})

uniq(hl) == SortedNames(Range(hl))

count(hl) == Len(hl)

DDGet(d, k, default) == IF k \in DOMAIN d THEN d[k] ELSE default

DDPut(d, k, v) == [x \in (DOMAIN d) \cup {k} |-> IF x = k THEN v ELSE d[x]]

RECURSIVE PushAll(_, _, _)
PushAll(d, keys, name) ==
    IF keys = {} THEN d
    ELSE LET g == CHOOSE x \in keys : TRUE
         IN PushAll(DDPut(d, g, push(DDGet(d, g, inithl), name)), keys \ {g}, name)

(* ------------------------ node bucketing loop -------------------------- *)
(* The 'gpu' token skipped like the location sentinel.                      *)
PrimaryFeature_SkipGpu(n) ==
    LET ff == Split(n.features.v, ",") IN
    IF n.features.t # "str" THEN Raise("AttributeError")
    ELSE IF ff[1] = <<"l","o","c","a","t","i","o","n","=","l","o","c","a","l">> \/ ff[1] = <<"g","p","u">>
         THEN IF Len(ff) < 2 THEN Raise("IndexError") ELSE Ok(ff[2])
         ELSE Ok(ff[1])

PrimaryFeature(n) ==
    LET ff == Split(n.features.v, ",") IN
    IF n.features.t # "str" THEN Raise("AttributeError")
    ELSE IF ff[1] = <<"l","o","c","a","t","i","o","n","=","l","o","c","a","l">>
         THEN IF Len(ff) < 2 THEN Raise("IndexError") ELSE Ok(ff[2])
         ELSE Ok(ff[1])

(* The node pushed under every one of its feature tokens.                   *)
FeatureKeys_AllTokens(n) == Range(Split(n.features.v, ","))

FeatureKeys(n) == {PrimaryFeature(n).val}

(* One iteration of the loop over nodes.values(). An uncaught exception    *)
(* ends the process; the half-filled buckets are then never read.          *)
BucketNode ==
    /\ pc = "nodes"
    /\ ni <= NumNodes
    /\ LET n == nodes[ni]
           r_ns == getInfo(args, n)
           st == NormState(n.state)
           r_f == PrimaryFeature(n)
           r_gs == getInfoGres(n)
           raised == \/ ~r_ns.ok
                     \/ /\ Qualifies(args, n)
                        /\ (~r_f.ok \/ (~args.gres /\ ~r_gs.ok))
       IN IF raised
          THEN /\ pc' = "aborted"
               /\ UNCHANGED <<state2hl, state2f02hl, state2gres2hl, ni>>
          ELSE /\ pc' = "nodes"
               /\ ni' = ni + 1
               /\ IF Qualifies(args, n)
                  THEN /\ state2hl' = DDPut(state2hl, st, push(DDGet(state2hl, st, inithl), n.name))
                       /\ state2f02hl' =
                             LET f02hl == DDGet(state2f02hl, st, <<>>)
                             IN DDPut(state2f02hl, st, PushAll(f02hl, FeatureKeys(n), n.name))
                       /\ IF ~args.gres
                          THEN state2gres2hl' =
                                 LET gs == Range(r_gs.val) \ {<<>>}
                                 IN IF gs = {} THEN state2gres2hl
                                    ELSE DDPut(state2gres2hl, st,
                                               PushAll(DDGet(state2gres2hl, st, <<>>), gs, n.name))
                          ELSE UNCHANGED state2gres2hl
                  ELSE UNCHANGED <<state2hl, state2f02hl, state2gres2hl>>
    /\ UNCHANGED <<nodes, jobs, args, s, sq, fq, gq, num_nodes, gpus, gpus_allocated, gpu_info, total_nodes,
                   total_cpus, total_cpus_allocated, total_gpus, total_gpus_allocated,
                   prefix2c, prefix2cpus, out, err, arg, ret>>

(* --------------------------- running jobs ------------------------------ *)
(* The job state test left out.                                            *)
h2jj_AllJobs(h) == SelectSeq(jobs, LAMBDA j : h \in Range(j.nodes))

h2jj(h) == SelectSeq(jobs, LAMBDA j : j.job_state = "RUNNING" /\ h \in Range(j.nodes))

uid2user == (1001 :> "alice") @@ (1003 :> "carol")

get_partition(j) == [key |-> j.partition, err |-> <<>>]

get_user(j) ==
    IF j.user_id \in DOMAIN uid2user
    THEN [key |-> uid2user[j.user_id], err |-> <<>>]
    ELSE [key |-> "user_" \o ToString(j.user_id),
          err |-> <<[msg |-> "Unknown user", about |-> j.user_id]>>]

get_func(count_by, j) == IF count_by = "partition" THEN get_partition(j) ELSE get_user(j)

RECURSIVE CountJobs(_, _, _)
CountJobs(cb2jc, jj, count_by) ==
    IF jj = <<>> THEN cb2jc
    ELSE LET k == get_func(count_by, Head(jj)).key
         IN CountJobs(DDPut(cb2jc, k, DDGet(cb2jc, k, 0) + 1), Tail(jj), count_by)

(* ------------------------------ gpuCountRe ----------------------------- *)
RECURSIVE DigitRun(_)
DigitRun(str) ==
    IF str # <<>> /\ Head(str) \in Digits THEN <<Head(str)>> \o DigitRun(Tail(str)) ELSE <<>>

RECURSIVE int(_)
int(ds) == IF ds = <<>> THEN 0 ELSE 10 * int(SubSeq(ds, 1, Len(ds) - 1)) + DigitVal(ds[Len(ds)])

MatchAt(str, p) ==
    LET rest == SubSeq(str, p + 4, Len(str))
        k == IndexOf(rest, ":")
    IN /\ p + 3 <= Len(str)
       /\ SubSeq(str, p, p + 3) = <<"g","p","u",":">>
       /\ k >= 2
       /\ DigitRun(SubSeq(rest, k + 1, Len(rest))) # <<>>

gpuCountRe(str) ==
    IF \E p \in 1..Len(str) : MatchAt(str, p)
    THEN LET p == CHOOSE q \in 1..Len(str) : MatchAt(str, q) /\ \A m \in 1..(q - 1) : ~MatchAt(str, m)
             rest == SubSeq(str, p + 4, Len(str))
             k == IndexOf(rest, ":")
         IN Ok(int(DigitRun(SubSeq(rest, k + 1, Len(rest)))))
    ELSE Raise("AttributeError")

(* ------------------------------ summarize_hl --------------------------- *)
Unbound == [t |-> "unbound", v |-> <<>>]

(* "for x in lst: if x.startswith('gpu'): break" leaves x at the first     *)
(* match, else at the last element, else at whatever it was bound to.      *)
ForBreak(lst, prev) ==
    IF \E k \in DOMAIN lst : StartsWith(lst[k], <<"g","p","u">>)
    THEN PyStr(lst[CHOOSE k \in DOMAIN lst :
                     StartsWith(lst[k], <<"g","p","u">>) /\ \A m \in 1..(k - 1) : ~StartsWith(lst[m], <<"g","p","u">>)])
    ELSE IF lst # <<>> THEN PyStr(lst[Len(lst)])
    ELSE prev

In(tok, field) ==
    IF field.t = "str" THEN Contains(field.v, tok) ELSE tok \in Range(field.v)

HasGpuFeature(node) ==
    In(<<"g","p","u">>, node.features) \/ In(<<"a","m","d","g","p","u">>, node.features) \/ In(<<"g","h">>, node.features)

SumInit ==
    [cpus |-> 0, cpus_allocated |-> 0, gpus |-> 0, gpus_allocated |-> 0, cb2jc |-> <<>>,
     gres |-> Unbound, gres_used |-> Unbound, err |-> <<>>, raised |-> FALSE]

TallyJobs(acc, h, count_by) ==
    LET jj == h2jj(h) IN
    IF count_by = "none" THEN acc
    ELSE [acc EXCEPT !.cb2jc = CountJobs(@, jj, count_by),
                     !.err = @ \o Flatten([k \in DOMAIN jj |-> get_func(count_by, jj[k]).err])]

(* The two additions indented into the loop over the node's jobs.          *)
AddCpus_PerJob(acc, h) ==
    [acc EXCEPT !.cpus = @ + Len(h2jj(h)) * nodes[h].cpus,
                !.cpus_allocated = @ + Len(h2jj(h)) * nodes[h].alloc_cpus]

AddCpus(acc, h) ==
    [acc EXCEPT !.cpus = @ + nodes[h].cpus,
                !.cpus_allocated = @ + nodes[h].alloc_cpus]

(* The allocated count parsed outside any try block.                        *)
AddGpus_NoTry(acc, h) ==
    LET node == nodes[h]
        gres == ForBreak(node.gres.v, acc.gres)
        gres_used == ForBreak(node.gres_used.v, acc.gres_used)
        a2 == [acc EXCEPT !.gres = gres, !.gres_used = gres_used]
    IN IF ~HasGpuFeature(node) THEN acc
       ELSE IF gres.t = "unbound" \/ ~gpuCountRe(gres.v).ok THEN [a2 EXCEPT !.raised = TRUE]
       ELSE LET a3 == [a2 EXCEPT !.gpus = @ + gpuCountRe(gres.v).val] IN
            IF gres_used.t = "unbound" \/ ~gpuCountRe(gres_used.v).ok
            THEN [a3 EXCEPT !.raised = TRUE]
            ELSE [a3 EXCEPT !.gpus_allocated = @ + gpuCountRe(gres_used.v).val]

AddGpus(acc, h) ==
    LET node == nodes[h]
        gres == ForBreak(node.gres.v, acc.gres)
        gres_used == ForBreak(node.gres_used.v, acc.gres_used)
        a2 == [acc EXCEPT !.gres = gres, !.gres_used = gres_used]
    IN IF ~HasGpuFeature(node) THEN acc
       ELSE IF gres.t = "unbound" \/ ~gpuCountRe(gres.v).ok THEN [a2 EXCEPT !.raised = TRUE]
       ELSE LET a3 == [a2 EXCEPT !.gpus = @ + gpuCountRe(gres.v).val] IN
            IF gres_used.t = "unbound" THEN [a3 EXCEPT !.raised = TRUE]
            ELSE IF gpuCountRe(gres_used.v).ok
                 THEN [a3 EXCEPT !.gpus_allocated = @ + gpuCountRe(gres_used.v).val]
                 ELSE [a3 EXCEPT !.err = Append(@, [msg |-> "Skipping", about |-> h])]

SumNode(acc, h, count_by) == AddGpus(AddCpus(TallyJobs(acc, h, count_by), h), h)

RECURSIVE SumLoop(_, _, _)
SumLoop(acc, hl, count_by) ==
    IF hl = <<>> \/ acc.raised THEN acc
    ELSE SumLoop(SumNode(acc, Head(hl), count_by), Tail(hl), count_by)

summarize_hl(hl, count_by) == SumLoop(SumInit, hl, count_by)

(* ------------------------------ report loop ---------------------------- *)
GpuInfo(g, ga) == IF g # 0 THEN <<g, ga>> ELSE <<>>

Line(level, st, name, c, r, info) ==
    [level |-> level, s |-> st, name |-> name, c |-> c, cpus |-> r.cpus,
     cpus_allocated |-> r.cpus_allocated, gpu_info |-> info, cb2jc |-> r.cb2jc]

StartReport ==
    /\ pc = "nodes"
    /\ ni > NumNodes
    /\ pc' = "report"
    /\ sq' = Sorted(DOMAIN state2hl)
    /\ UNCHANGED <<nodes, jobs, args, state2hl, state2f02hl, state2gres2hl, ni, s, fq, gq,
                   num_nodes, gpus, gpus_allocated, gpu_info, total_nodes, total_cpus,
                   total_cpus_allocated, total_gpus, total_gpus_allocated, prefix2c, prefix2cpus,
                   out, err, arg, ret>>

EmitState ==
    /\ pc = "report"
    /\ fq = <<>> /\ gq = <<>> /\ sq # <<>>
    /\ LET st == Head(sq)
           hl == uniq(state2hl[st])
           r == summarize_hl(hl, args.summarize)
       IN /\ s' = st
          /\ sq' = Tail(sq)
          /\ state2hl' = [state2hl EXCEPT ![st] = hl]
          /\ num_nodes' = count(hl)
          /\ total_nodes' = total_nodes + count(hl)
          /\ err' = err \o r.err
          /\ IF r.raised
             THEN /\ pc' = "aborted"
                  /\ UNCHANGED <<fq, gq, gpus, gpus_allocated, gpu_info, total_cpus,
                                 total_cpus_allocated, total_gpus, total_gpus_allocated,
                                 prefix2c, prefix2cpus, out>>
             ELSE /\ pc' = "report"
                  /\ gpus' = r.gpus
                  /\ gpus_allocated' = r.gpus_allocated
                  /\ total_cpus' = total_cpus + r.cpus
                  /\ total_cpus_allocated' = total_cpus_allocated + r.cpus_allocated
                  /\ total_gpus' = total_gpus + r.gpus
                  /\ total_gpus_allocated' = total_gpus_allocated + r.gpus_allocated
                  /\ prefix2c' = DDPut(prefix2c, st, DDGet(prefix2c, st, 0) + count(hl))
                  /\ prefix2cpus' = DDPut(prefix2cpus, st, DDGet(prefix2cpus, st, 0) + r.cpus)
                  /\ gpu_info' = GpuInfo(r.gpus, r.gpus_allocated)
                  /\ out' = Append(out, Line("state", st, st, count(hl), r,
                                             GpuInfo(r.gpus, r.gpus_allocated)))
                  /\ fq' = Sorted(DOMAIN state2f02hl[st])
                  /\ gq' = Sorted(DOMAIN DDGet(state2gres2hl, st, <<>>))
    /\ UNCHANGED <<nodes, jobs, args, state2f02hl, state2gres2hl, ni, arg, ret>>

EmitFeature ==
    /\ pc = "report"
    /\ fq # <<>>
    /\ LET feature == Head(fq)
           fhl == uniq(state2f02hl[s][feature])
           c == count(fhl)
           r == summarize_hl(fhl, args.summarize)
       IN /\ fq' = Tail(fq)
          /\ state2f02hl' = [state2f02hl EXCEPT ![s][feature] = fhl]
          /\ IF feature = <<"g","p","u">> \/ (~args.verbose /\ num_nodes = c)
             THEN UNCHANGED <<pc, out, err, gpus, gpus_allocated>>
             ELSE /\ err' = err \o r.err
                  /\ IF r.raised
                     THEN pc' = "aborted" /\ UNCHANGED <<out, gpus, gpus_allocated>>
                     ELSE /\ pc' = "report"
                          /\ gpus' = r.gpus
                          /\ gpus_allocated' = r.gpus_allocated
                          /\ out' = Append(out, Line("feature", s, feature, c, r, gpu_info))
    /\ UNCHANGED <<nodes, jobs, args, state2hl, state2gres2hl, ni, s, sq, gq, num_nodes, gpu_info,
                   total_nodes, total_cpus, total_cpus_allocated, total_gpus,
                   total_gpus_allocated, prefix2c, prefix2cpus, arg, ret>>

EmitGres ==
    /\ pc = "report"
    /\ fq = <<>> /\ gq # <<>>
    /\ LET g == Head(gq)
           ghl == uniq(state2gres2hl[s][g])
           c == count(ghl)
           r == summarize_hl(ghl, args.summarize)
       IN /\ gq' = Tail(gq)
          /\ state2gres2hl' = [state2gres2hl EXCEPT ![s][g] = ghl]
          /\ IF ~args.verbose /\ num_nodes = c
             THEN UNCHANGED <<pc, out, err, gpus, gpus_allocated, gpu_info>>
             ELSE /\ err' = err \o r.err
                  /\ IF r.raised
                     THEN pc' = "aborted" /\ UNCHANGED <<out, gpus, gpus_allocated, gpu_info>>
                     ELSE /\ pc' = "report"
                          /\ gpus' = r.gpus
                          /\ gpus_allocated' = r.gpus_allocated
                          /\ gpu_info' = GpuInfo(r.gpus, r.gpus_allocated)
                          /\ out' = Append(out, Line("gres", s, g, c, r,
                                                     GpuInfo(r.gpus, r.gpus_allocated)))
    /\ UNCHANGED <<nodes, jobs, args, state2hl, state2f02hl, ni, s, sq, fq, num_nodes,
                   total_nodes, total_cpus, total_cpus_allocated, total_gpus,
                   total_gpus_allocated, prefix2c, prefix2cpus, arg, ret>>

EmitTotal ==
    /\ pc = "report"
    /\ fq = <<>> /\ gq = <<>> /\ sq = <<>>
    /\ pc' = "done"
    /\ gpu_info' = GpuInfo(total_gpus, total_gpus_allocated)
    /\ out' = Append(out, [level |-> "total", s |-> <<>>, name |-> <<>>, c |-> total_nodes,
                           cpus |-> total_cpus, cpus_allocated |-> total_cpus_allocated,
                           gpu_info |-> GpuInfo(total_gpus, total_gpus_allocated),
                           cb2jc |-> prefix2c])
    /\ UNCHANGED <<nodes, jobs, args, state2hl, state2f02hl, state2gres2hl, ni, s, sq, fq, gq,
                   num_nodes, gpus, gpus_allocated, total_nodes, total_cpus, total_cpus_allocated,
                   total_gpus, total_gpus_allocated, prefix2c, prefix2cpus, err, arg, ret>>

(* ------------------------------ inputs --------------------------------- *)
Node(features, gres, gres_used, state, cpus, alloc_cpus) ==
    [features |-> PyStr(features), gres |-> PyList(gres), gres_used |-> PyList(gres_used),
     state |-> state, cpus |-> cpus, alloc_cpus |-> alloc_cpus]

NodeCatalog ==
    { Node(<<"g","p","u",",","s","k","y","l","a","k","e",",","v","1","0","0">>, <<<<"g","p","u",":","v","1","0","0","-","1","6","g","b",":","2","(","S",":","0","-","1",")">>>>,
           <<<<"g","p","u",":","v","1","0","0","-","1","6","g","b",":","0","(","I","D","X",":","N","/","A",")">>>>, <<"I","D","L","E">>, 40, 0),
      Node(<<"g","p","u",",","s","k","y","l","a","k","e",",","a","1","0","0">>, <<<<"g","p","u",":","a","1","0","0",":","2","(","S",":","0",")">>, <<"g","p","u",":","a","1","0","0",":","2","(","S",":","1",")">>>>,
           <<<<"g","p","u",":","a","1","0","0",":","1","(","I","D","X",":","0",")">>, <<"g","p","u",":","a","1","0","0",":","0","(","I","D","X",":","N","/","A",")">>>>, <<"M","I","X","E","D","@">>, 64, 32),
      Node(<<"r","o","m","e",",","i","b">>, <<>>, <<<<"g","p","u",":","0">>>>, <<"M","I","X","E","D">>, 128, 48),
      Node(<<"r","o","m","e",",","h","i","g","h","m","e","m">>, <<>>, <<<<"g","p","u",":","0">>>>, <<"I","D","L","E","+","P","O","W","E","R">>, 128, 0),
      Node(<<"l","o","c","a","t","i","o","n","=","l","o","c","a","l",",","i","c","e","l","a","k","e",",","g","p","u">>, <<<<"g","p","u",":","a","1","0","0",":","4">>>>, <<<<"g","p","u",":","0">>>>, <<"M","I","X","E","D">>, 64, 16),
      Node(<<"g","p","u",",","c","a","s","c","a","d","e","l","a","k","e",",","n","v","l","i","n","k","+","s","x","m","2">>, <<<<"n","i","c",":","m","l","x",":","1">>, <<"g","p","u",":","v","1","0","0","-","1","6","g","b",":","4">>>>,
           <<<<"n","i","c",":","m","l","x",":","0">>, <<"g","p","u",":","v","1","0","0","-","1","6","g","b",":","1","(","I","D","X",":","0",")">>>>, <<"M","I","X","E","D","+","D","R","A","I","N">>, 48, 12),
      Node(<<"g","p","u",",","i","c","e","l","a","k","e">>, <<<<"g","p","u",":","2">>>>, <<<<"g","p","u",":","0">>>>, <<"M","I","X","E","D">>, 64, 8) }

Job(job_state, hosts, partition, user_id) ==
    [job_state |-> job_state, nodes |-> hosts, partition |-> partition, user_id |-> user_id]

JobLists ==
    { <<Job("RUNNING", <<1, 2>>, "gpu", 1001), Job("RUNNING", <<1>>, "gen", 1002)>>,
      <<Job("PENDING", <<1, 2>>, "gpu", 1003), Job("RUNNING", <<2>>, "gen", 1003),
        Job("RUNNING", <<2>>, "gen", 1001)>> }

Expressions ==
    { NoWords,
      And(Name(<<"g","p","u">>), Not(Name(<<"v","1","0","0">>))),
      Or(Name(<<"v","1","0","0","-","1","6","g","b">>), Name(<<"r","o","m","e">>)) }

ArgSets ==
    [gres : BOOLEAN, verbose : BOOLEAN, summarize : {"none", "partition", "user"},
     features : Expressions]

Init ==
    /\ \E f \in [1..NumNodes -> NodeCatalog] :
           nodes = [k \in 1..NumNodes |-> [name |-> k] @@ f[k]]
    /\ jobs \in JobLists
    /\ args \in ArgSets
    /\ state2hl = <<>> /\ state2f02hl = <<>> /\ state2gres2hl = <<>>
    /\ pc = "nodes" /\ ni = 1
    /\ s = <<>> /\ sq = <<>> /\ fq = <<>> /\ gq = <<>>
    /\ num_nodes = 0 /\ gpus = 0 /\ gpus_allocated = 0 /\ gpu_info = <<>>
    /\ total_nodes = 0 /\ total_cpus = 0 /\ total_cpus_allocated = 0
    /\ total_gpus = 0 /\ total_gpus_allocated = 0
    /\ prefix2c = <<>> /\ prefix2cpus = <<>>
    /\ out = <<>> /\ err = <<>>
    /\ arg = <<>> /\ ret = <<>>

Next ==
    \/ BucketNode
    \/ StartReport
    \/ EmitState
    \/ EmitFeature
    \/ EmitGres
    \/ EmitTotal

Spec == Init /\ [][Next]_vars

(* ---------------- state normalisation on its own ------------------------ *)
Parked ==
    /\ nodes = <<>> /\ jobs = <<>> /\ args = <<>>
    /\ state2hl = <<>> /\ state2f02hl = <<>> /\ state2gres2hl = <<>>
    /\ ni = 1 /\ s = <<>> /\ sq = <<>> /\ fq = <<>> /\ gq = <<>>
    /\ num_nodes = 0 /\ gpus = 0 /\ gpus_allocated = 0 /\ gpu_info = <<>>
    /\ total_nodes = 0 /\ total_cpus = 0 /\ total_cpus_allocated = 0
    /\ total_gpus = 0 /\ total_gpus_allocated = 0
    /\ prefix2c = <<>> /\ prefix2cpus = <<>>
    /\ out = <<>> /\ err = <<>>

StatePieces ==
    { <<"I","D","L","E">>, <<"M","I","X","E","D">>, <<"+","D","R","A","I","N">>, <<"+","P","O","W","E","R">>, <<"@">>, <<"+","P","O">>, <<"W","E","R">> }

RECURSIVE Concats(_, _)
Concats(pieces, n) ==
    IF n = 0 THEN {<<>>}
    ELSE Concats(pieces, n - 1) \cup {q \o r : q \in pieces, r \in Concats(pieces, n - 1)}

InitNorm ==
    /\ Parked
    /\ pc = "state"
    /\ arg \in Concats(StatePieces, MaxPieces)
    /\ ret = <<>>

Normalize ==
    /\ pc = "state"
    /\ ret' = NormState(arg)
    /\ pc' = "normalized"
    /\ UNCHANGED <<runVars, arg>>

NextNorm == Normalize

SpecNorm == InitNorm /\ [][NextNorm]_vars

(* C2: the normalized state used as bucket key contains neither the        *)
(* substring '+POWER' nor the character '@', whatever the input string.    *)
C2_NoMarkersLeft ==
    pc = "normalized" => ~Contains(ret, <<"+","P","O","W","E","R">>) /\ ~Contains(ret, <<"@">>)

(* ---------------------- extractors on their own ------------------------ *)
FeatureFields ==
    { PyStr(<<>>), PyStr(<<"g","p","u">>), PyStr(<<"r","o","m","e",",","i","b">>), PyStr(<<",","r","o","m","e",",">>),
      PyList(<<>>), PyList(<<<<"r","o","m","e",",","i","b">>, <<"g","p","u">>>>) }

GresDescriptors ==
    { <<"g","p","u",":","v","1","0","0","-","1","6","g","b",":","2","(","S",":","0","-","1",")">>, <<"g","p","u",":","2">>, <<"g","p","u",":","a","1","0","0",":","1",",","n","i","c",":","m","l","x",":","1">>, <<"g","p","u">>, <<"g","p","u",":","a","1","0","0",":","2",",">>, <<>> }

RECURSIVE Lists(_, _)
Lists(elems, n) ==
    IF n = 0 THEN {<<>>}
    ELSE Lists(elems, n - 1) \cup {<<e>> \o r : e \in elems, r \in Lists(elems, n - 1)}

GresFields == {PyNone} \cup {PyList(l) : l \in Lists(GresDescriptors, MaxGresLen)}

ExtractInputs ==
    {[features |-> f, gres |-> g] : f \in FeatureFields, g \in GresFields}
        \cup {[gres |-> g] : g \in GresFields}

InitExtract ==
    /\ Parked
    /\ pc = "node"
    /\ arg \in ExtractInputs
    /\ ret = <<>>

ExtractFeatures ==
    /\ pc = "node"
    /\ ret' = getInfoFeatures(arg)
    /\ pc' = "features"
    /\ UNCHANGED <<runVars, arg>>

ExtractGres ==
    /\ pc = "node"
    /\ ret' = getInfoGres(arg)
    /\ pc' = "gres"
    /\ UNCHANGED <<runVars, arg>>

NextExtract == ExtractFeatures \/ ExtractGres

SpecExtract == InitExtract /\ [][NextExtract]_vars

(* C5: getInfoFeatures and getInfoGres never raise; a missing, empty,      *)
(* singular or malformed field or descriptor gives a token sequence.       *)
C5_NeverRaises ==
    pc \in {"features", "gres"} => ret.ok

(* ------------------- the filter over more expressions ------------------ *)
EvalExpressions ==
    Expressions \cup
    { Not(Or(Name(<<"r","o","m","e">>), Name(<<"s","k","y","l","a","k","e">>))),
      And(Name(<<"s","k","y","l","a","k","e">>), Or(Name(<<"a","1","0","0">>), Name(<<"v","1","0","0","-","1","6","g","b">>))),
      Or(Name(<<"m","l","x">>), And(Name(<<"a","1","0","0">>), Not(Name(<<"v","1","0","0","-","1","6","g","b">>)))),
      Or(Not(Name(<<"g","p","u">>)), Name(<<"n","v","l","i","n","k","+","s","x","m","2">>)) }

InitEval ==
    /\ \E f \in [1..NumNodes -> NodeCatalog] :
           nodes = [k \in 1..NumNodes |-> [name |-> k] @@ f[k]]
    /\ jobs = <<>>
    /\ args \in [gres : BOOLEAN, verbose : {FALSE}, summarize : {"none"},
                 features : EvalExpressions]
    /\ state2hl = <<>> /\ state2f02hl = <<>> /\ state2gres2hl = <<>>
    /\ pc = "nodes" /\ ni = 1
    /\ s = <<>> /\ sq = <<>> /\ fq = <<>> /\ gq = <<>>
    /\ num_nodes = 0 /\ gpus = 0 /\ gpus_allocated = 0 /\ gpu_info = <<>>
    /\ total_nodes = 0 /\ total_cpus = 0 /\ total_cpus_allocated = 0
    /\ total_gpus = 0 /\ total_gpus_allocated = 0
    /\ prefix2c = <<>> /\ prefix2cpus = <<>>
    /\ out = <<>> /\ err = <<>>
    /\ arg = <<>> /\ ret = <<>>

SpecEval == InitEval /\ [][Next]_vars

(* ------------------------- properties ---------------------------------- *)
RECURSIVE SumOver(_, _)
SumOver(S, f) ==
    IF S = {} THEN 0
    ELSE LET x == CHOOSE y \in S : TRUE IN f[x] + SumOver(S \ {x}, f)

Lines(levels) == {k \in DOMAIN out : out[k].level \in levels}

BucketLevels == {"state", "feature", "gres"}

Members(l) ==
    CASE l.level = "state" -> Range(state2hl[l.s])
      [] l.level = "feature" -> Range(state2f02hl[l.s][l.name])
      [] l.level = "gres" -> Range(state2gres2hl[l.s][l.name])

Processed(k) == k < ni

InStateBucket(k, st) == st \in DOMAIN state2hl /\ k \in Range(state2hl[st])

InFeatureBucket(k, st, f) ==
    /\ st \in DOMAIN state2f02hl
    /\ f \in DOMAIN state2f02hl[st]
    /\ k \in Range(state2f02hl[st][f])

InGresBucket(k, st, g) ==
    /\ st \in DOMAIN state2gres2hl
    /\ g \in DOMAIN state2gres2hl[st]
    /\ k \in Range(state2gres2hl[st][g])

GresTypes(h) == getInfoGres(nodes[h]).val

SameTypeTwice(h) ==
    \E a, b \in DOMAIN GresTypes(h) : a # b /\ GresTypes(h)[a] = GresTypes(h)[b]

(* C1: every emitted bucket line reports as node count the number of       *)
(* distinct node identifiers pushed into the bucket, and sums each such    *)
(* node's CPU capacity and CPU allocation exactly once.                    *)
C1_CountsDistinctNodes ==
    \A k \in Lines(BucketLevels) :
        LET m == Members(out[k]) IN
        /\ out[k].c = Cardinality(m)
        /\ out[k].cpus = SumOver(m, [h \in m |-> nodes[h].cpus])
        /\ out[k].cpus_allocated = SumOver(m, [h \in m |-> nodes[h].alloc_cpus])

C1_Witness ==
    \E k \in Lines({"gres"}) :
        /\ out[k].c = 1
        /\ \E h \in Members(out[k]) : SameTypeTwice(h)

(* ---- C3: the worked example node ---- *)
ExampleNode ==
    Node(<<"g","p","u",",","s","k","y","l","a","k","e",",","v","1","0","0">>, <<<<"g","p","u",":","v","1","0","0","-","1","6","g","b",":","2","(","S",":","0","-","1",")">>>>,
         <<<<"g","p","u",":","v","1","0","0","-","1","6","g","b",":","0","(","I","D","X",":","N","/","A",")">>>>, <<"I","D","L","E">>, 40, 0)

IsExample(k) == nodes[k] = [name |-> k] @@ ExampleNode

ExampleCase(k) == Processed(k) /\ IsExample(k) /\ ~args.gres /\ Qualifies(args, nodes[k])

OnlyExamples(l) == Members(l) # {} /\ \A h \in Members(l) : IsExample(h)

ExampleGpuFigures ==
    \A k \in Lines({"state", "gres"}) :
        OnlyExamples(out[k]) => out[k].gpu_info = <<2 * out[k].c, 0>>

(* C3 as stated: in feature mode the example node is in state bucket IDLE, *)
(* in feature bucket IDLE/skylake and not in IDLE/gpu, in resource bucket  *)
(* IDLE/v100-16gb, and adds 2 to GPU total and 0 to GPU allocated.         *)
C3_AsStated ==
    /\ \A k \in 1..NumNodes :
         ExampleCase(k) =>
            /\ InStateBucket(k, <<"I","D","L","E">>)
            /\ InFeatureBucket(k, <<"I","D","L","E">>, <<"s","k","y","l","a","k","e">>)
            /\ ~InFeatureBucket(k, <<"I","D","L","E">>, <<"g","p","u">>)
            /\ InGresBucket(k, <<"I","D","L","E">>, <<"v","1","0","0","-","1","6","g","b">>)
    /\ ExampleGpuFigures

(* C3 amended: the example node is in state bucket IDLE, in feature bucket *)
(* IDLE/gpu (its first feature token) and not in IDLE/skylake, in resource *)
(* bucket IDLE/v100-16gb, and adds 2 to GPU total and 0 to GPU allocated.  *)
C3_ExampleBuckets ==
    /\ \A k \in 1..NumNodes :
         ExampleCase(k) =>
            /\ InStateBucket(k, <<"I","D","L","E">>)
            /\ InFeatureBucket(k, <<"I","D","L","E">>, <<"g","p","u">>)
            /\ ~InFeatureBucket(k, <<"I","D","L","E">>, <<"s","k","y","l","a","k","e">>)
            /\ InGresBucket(k, <<"I","D","L","E">>, <<"v","1","0","0","-","1","6","g","b">>)
    /\ ExampleGpuFigures

C3_Witness ==
    /\ pc = "done"
    /\ \E k \in 1..NumNodes : ExampleCase(k)
    /\ \E k \in Lines({"gres"}) :
         out[k].name = <<"v","1","0","0","-","1","6","g","b">> /\ OnlyExamples(out[k]) /\ out[k].gpu_info = <<2, 0>>
    /\ \E k \in Lines({"state"}) : OnlyExamples(out[k])

(* ---- C4, C7: GPU figures of summarize_hl ---- *)
GpuDescs(lst) == SelectSeq(lst, LAMBDA d : StartsWith(d, <<"g","p","u">>))

FirstGpuParses(lst) == GpuDescs(lst) # <<>> /\ gpuCountRe(GpuDescs(lst)[1]).ok

FirstGpuCount(lst) == IF FirstGpuParses(lst) THEN gpuCountRe(GpuDescs(lst)[1]).val ELSE 0

AllocUnparsable(h) ==
    /\ HasGpuFeature(nodes[h])
    /\ GpuDescs(nodes[h].gres_used.v) # <<>>
    /\ ~gpuCountRe(GpuDescs(nodes[h].gres_used.v)[1]).ok

TotalSideFine(h) ==
    HasGpuFeature(nodes[h]) =>
        FirstGpuParses(nodes[h].gres.v) /\ GpuDescs(nodes[h].gres_used.v) # <<>>

LastLine == out[Len(out)]

AfterBucketLine == out # <<>> /\ LastLine.level \in BucketLevels

GpuTokens == { <<"g","p","u">>, <<"a","m","d","g","p","u">>, <<"g","h">> }

TokenGpu(h) == Range(getInfoFeatures(nodes[h]).val) \cap GpuTokens # {}

(* C7: a member node adds to the bucket's GPU total and GPU allocated      *)
(* exactly when its feature token set has gpu, amdgpu or gh, and then the  *)
(* counts of its own first GPU-type GRES and GRES-in-use descriptors; any  *)
(* other node adds 0, and nothing is taken from another node.              *)
C7_OwnDescriptorsOnly ==
    AfterBucketLine =>
        LET m == Members(LastLine) IN
        /\ gpus = SumOver(m, [h \in m |->
                     IF TokenGpu(h) THEN FirstGpuCount(nodes[h].gres.v) ELSE 0])
        /\ gpus_allocated = SumOver(m, [h \in m |->
                     IF TokenGpu(h) THEN FirstGpuCount(nodes[h].gres_used.v) ELSE 0])

(* C10: every emitted bucket line shows the GPU figures summarize_hl       *)
(* returned for that very bucket.                                          *)
C10_LineShowsOwnGpus ==
    AfterBucketLine => LastLine.gpu_info = GpuInfo(gpus, gpus_allocated)

(* ---- C8 ---- *)
FeatureLinesOf(st) == {j \in Lines({"feature"}) : out[j].s = st}

(* C8: within a state the node counts of the emitted per-feature lines sum *)
(* to at most the node count of the state line.                            *)
C8_FeatureSumWithinState ==
    \A k \in Lines({"state"}) :
        LET fl == FeatureLinesOf(out[k].s)
        IN SumOver(fl, [j \in fl |-> out[j].c]) <= out[k].c

C8_Witness ==
    \E k \in Lines({"state"}) :
        /\ out[k].c = 2
        /\ \E j \in FeatureLinesOf(out[k].s) : out[j].c = 1
        /\ fq = <<>>

(* ---- C9 ---- *)
UserLabel(j) ==
    IF j.user_id \in DOMAIN uid2user THEN uid2user[j.user_id] ELSE "user_" \o ToString(j.user_id)

TallyKey(j) == IF args.summarize = "partition" THEN j.partition ELSE UserLabel(j)

TallyKeys == {TallyKey(jobs[j]) : j \in DOMAIN jobs}

Occupancies(m, key) ==
    {<<h, j>> \in m \X DOMAIN jobs :
        /\ jobs[j].job_state = "RUNNING"
        /\ h \in Range(jobs[j].nodes)
        /\ TallyKey(jobs[j]) = key}

(* C9: with a breakdown requested, a bucket's sub-tally maps each key to   *)
(* the number of (member node, RUNNING job on that node) pairs whose       *)
(* partition or resolved user name ('user_<id>' if unknown) is the key.    *)
C9_SubTallyCountsPairs ==
    \A k \in Lines(BucketLevels) :
        IF args.summarize = "none" THEN out[k].cb2jc = <<>>
        ELSE /\ DOMAIN out[k].cb2jc \subseteq TallyKeys
             /\ \A key \in TallyKeys :
                   DDGet(out[k].cb2jc, key, 0) = Cardinality(Occupancies(Members(out[k]), key))

C9_Witness ==
    \E k \in Lines({"state"}) :
        /\ args.summarize = "user"
        /\ out[k].c = 2
        /\ DDGet(out[k].cb2jc, "alice", 0) = 2
        /\ DDGet(out[k].cb2jc, "user_1002", 0) = 1
        /\ \E j \in DOMAIN jobs : jobs[j].job_state = "RUNNING" /\ Len(jobs[j].nodes) = 2

(* ---- C6 ---- *)
Tokens(k) == Range(getInfo(args, nodes[k]).val)

RECURSIVE Holds(_, _)
Holds(e, toks) ==
    CASE e.op = "name" -> UnsanitizeName(SanitizeName(e.id)) \in toks
      [] e.op = "not" -> ~Holds(e.a, toks)
      [] e.op = "and" -> Holds(e.a, toks) /\ Holds(e.b, toks)
      [] e.op = "or" -> Holds(e.a, toks) \/ Holds(e.b, toks)
      [] e.op = "empty" -> TRUE

Reported(k) == InStateBucket(k, NormState(nodes[k].state))

GpuAndNotV100 == And(Name(<<"g","p","u">>), Not(Name(<<"v","1","0","0">>)))

(* C6: a node is reported iff the expression is true with each variable    *)
(* bound to the membership of its unescaped name in the node's token set;  *)
(* 'gpu and not v100' rejects {gpu, skylake, v100} and accepts             *)
(* {gpu, skylake, a100}; an empty argument list accepts every node.        *)
C6_QualifiesIffExpressionTrue ==
    \A k \in 1..NumNodes :
        Processed(k) =>
            /\ Reported(k) <=> Holds(args.features, Tokens(k))
            /\ args.features = NoWords => Reported(k)
            /\ args.features = GpuAndNotV100 /\ Tokens(k) = { <<"g","p","u">>, <<"s","k","y","l","a","k","e">>, <<"v","1","0","0">> }
                  => ~Reported(k)
            /\ args.features = GpuAndNotV100 /\ Tokens(k) = { <<"g","p","u">>, <<"s","k","y","l","a","k","e">>, <<"a","1","0","0">> }
                  => Reported(k)

C6_Witness ==
    /\ pc = "done"
    /\ args.features = GpuAndNotV100
    /\ Tokens(1) = { <<"g","p","u">>, <<"s","k","y","l","a","k","e">>, <<"v","1","0","0">> } /\ ~Reported(1)
    /\ Tokens(2) = { <<"g","p","u">>, <<"s","k","y","l","a","k","e">>, <<"a","1","0","0">> } /\ Reported(2)

====
